---- MODULE Spec2Model ----
(***************************************************************************)
(* Model of src/main.py: the noise-driven volume controller.               *)
(*                                                                         *)
(* Three threads of control are modelled:                                  *)
(*   - main():           startup, then the Tk main loop (the GUI thread),  *)
(*   - monitor_noise():  the background loop thread,                       *)
(*   - the external actor that changes the system volume out of band       *)
(*     (keyboard keys, other applications).                                *)
(*                                                                         *)
(* Volumes are fixed-point numbers in thousandths (1.0 = 1000), noise      *)
(* levels are in thousandths as well, and the sensitivity is an integer,   *)
(* so that  base + (noise - RESTING) * sensitivity  is again a number of   *)
(* thousandths and the tolerance 0.015 is 15.                              *)
(*                                                                         *)
(* The Tk variables (toggle_var, listening_var, base_volume_var,           *)
(* sensitivity_var) belong to the GUI thread.  A get()/set() issued by the *)
(* loop thread is handed to the GUI thread and served by its event loop,   *)
(* so it completes only while the GUI thread runs no callback.             *)
(***************************************************************************)
EXTENDS Integers, Sequences, FiniteSets, TLC

\* ------------------------------------------------------------ constants
MIN_VOLUME == 0
MAX_VOLUME == 1000
RESTING_NOISE_LEVEL == 5
Tolerance == 15
UNINITIALIZED == 0 - 1000
DEFAULT_SENSITIVITY == 20

\* ------------------------------------------------------------ bounds
\* How many out-of-band volume changes and slider moves a run contains.
MaxExternal == 1
MaxSlider == 1
\* the largest microphone RMS of the target computation, in steps of 0.005
MaxNoiseStep == 4

\* ------------------------------------------------------------ input sets
InitialVolumes == {400}
ExternalVolumes == {415, 416}
SliderVolumes == {900}
NoiseLevels == {5, 20}
Sensitivities == {20, 100}

\* inputs of the target computation of lines 75-88: base volumes the slider
\* can hold, microphone RMS levels, positions of the sensitivity scale (1..100)
TargetBases == {0, 400, 500, 900, 1000}
TargetNoises == {5 * k : k \in 0..MaxNoiseStep}
TargetSensitivities == {1, 20, 50, 100}

VARIABLES
    \* shared program state
    sysVol,                  \* the OS master volume (IAudioEndpointVolume)
    last_volume_set_by_app,  \* the tracker
    volume_lock,             \* "free" or the thread holding it
    toggle_var, listening_var, base_volume_var, sensitivity_var,
    \* control state
    mainPc, loopPc, guiPc,
    \* locals of monitor_noise
    current_system_volume, base_volume, noise, sensitivity, final_volume,
    \* local of on_manual_slider_change
    volume_value,
    \* history variables
    sysVolSrc,     \* who wrote sysVol last
    curSrc,        \* sysVolSrc at the loop's read of the volume
    tracked,       \* the tracker value the detection compared against
    cycleLog,      \* calls the loop made in the current cycle, in order
    eventArg,      \* argument of the cycle's update_base_volume_in_gui call
    sampleFailed,  \* the cycle's noise capture raised
    extPending,    \* external value not yet reported ({} or {c})
    sliderWrite,   \* slider's tracker write not yet compared ({} or {v})
    cycleClean,    \* no disturbance since the current cycle began
    settled,       \* a whole manual-mode cycle ran since the last disturbance
    ioFailed,      \* a volume call of the loop raised
    sliderMode,    \* mode ("auto"/"manual") of the last finished slider handler,
                   \* "none" after a later toggle, external change or slider move
    extCount, sliderCount

vars == <<sysVol, last_volume_set_by_app, volume_lock, toggle_var,
          listening_var, base_volume_var, sensitivity_var, mainPc, loopPc,
          guiPc, current_system_volume, base_volume, noise, sensitivity,
          final_volume, volume_value, sysVolSrc, curSrc, tracked, cycleLog,
          eventArg, sampleFailed, extPending, sliderWrite, cycleClean,
          settled, ioFailed, sliderMode, extCount, sliderCount>>

shared == <<sysVol, last_volume_set_by_app, volume_lock, sysVolSrc>>
tkVars == <<toggle_var, listening_var, base_volume_var, sensitivity_var>>
loopLocals == <<current_system_volume, base_volume, noise, sensitivity,
                final_volume>>
loopHist == <<curSrc, tracked, cycleLog, eventArg, sampleFailed, ioFailed>>
envHist == <<extPending, sliderWrite, cycleClean, settled, sliderMode,
             extCount, sliderCount>>

\* ------------------------------------------------------------ pure helpers
Abs(x) == IF x < 0 THEN 0 - x ELSE x

Min(a, b) == IF a < b THEN a ELSE b

Max(a, b) == IF a > b THEN a ELSE b

Count(s, x) == Cardinality({i \in 1..Len(s) : s[i] = x})

\* variant: the comparison taken as >=
ExternalChangeInclusive(current, last) == Abs(current - last) >= Tolerance

\* line 66: abs(current_system_volume - last_volume_set_by_app) > 0.015
ExternalChange(current, last) == Abs(current - last) > Tolerance

\* variant: the adjustment subtracted
RawVolumeInverted(base, n, sens) == base - (n - RESTING_NOISE_LEVEL) * sens

\* variant: the noise taken without the resting level
RawVolumeNoResting(base, n, sens) == base + n * sens

\* lines 81-85: base_volume + (noise - RESTING_NOISE_LEVEL) * sensitivity
RawVolume(base, n, sens) == base + (n - RESTING_NOISE_LEVEL) * sens

\* variant: only the upper bound applied
ClampHighOnly(v) == Min(MAX_VOLUME, v)

\* variant: only the lower bound applied
ClampLowOnly(v) == Max(MIN_VOLUME, v)

\* line 88: min(MAX_VOLUME, max(MIN_VOLUME, final_volume))
Clamp(v) == Min(MAX_VOLUME, Max(MIN_VOLUME, v))

\* variant: a failed capture reported as the resting level
NoiseResultResting(ok, rms) == IF ok THEN rms ELSE RESTING_NOISE_LEVEL

\* lines 29-36: the RMS of the recording, or 0.0 when the capture raises
NoiseResult(ok, rms) == IF ok THEN rms ELSE 0

\* variant: entry that does not wait for the lock
AcquireNoWait(t) == volume_lock' = t

\* "with volume_lock:" entry and exit
Acquire(t) == volume_lock = "free" /\ volume_lock' = t

Release(t) == volume_lock = t /\ volume_lock' = "free"

\* variant: the pause check never skips the cycle
AfterPauseCheckNoSkip(listening) == "read_volume"

\* lines 55-58: a paused cycle sleeps and starts over
AfterPauseCheck(listening) == IF listening THEN "read_volume" ELSE "paused_sleep"

\* root.mainloop() is serving events: no GUI callback is running
MainloopIdle == mainPc = "mainloop" /\ guiPc = "idle"

\* history: the premise of "nothing changed" ends
Disturb == cycleClean' = FALSE /\ settled' = FALSE

\* ------------------------------------------------------------ initial state
Init ==
    /\ sysVol \in InitialVolumes
    /\ last_volume_set_by_app = UNINITIALIZED
    /\ volume_lock = "free"
    /\ toggle_var = TRUE
    /\ listening_var = TRUE
    /\ base_volume_var = MIN_VOLUME
    /\ sensitivity_var = DEFAULT_SENSITIVITY
    /\ mainPc = "get_volume_control"
    /\ loopPc = "not_started"
    /\ guiPc = "not_started"
    /\ current_system_volume = MIN_VOLUME
    /\ base_volume = MIN_VOLUME
    /\ noise = 0
    /\ sensitivity = DEFAULT_SENSITIVITY
    /\ final_volume = MIN_VOLUME
    /\ volume_value = MIN_VOLUME
    /\ sysVolSrc = "external"
    /\ curSrc = "external"
    /\ tracked = UNINITIALIZED
    /\ cycleLog = <<>>
    /\ eventArg = {}
    /\ sampleFailed = FALSE
    /\ extPending = {}
    /\ sliderWrite = {}
    /\ cycleClean = FALSE
    /\ settled = FALSE
    /\ ioFailed = FALSE
    /\ sliderMode = "none"
    /\ extCount = 0
    /\ sliderCount = 0

\* ------------------------------------------------------------ main()
\* line 193: get_volume_control() returns the interface or raises
GetVolumeControl ==
    /\ mainPc = "get_volume_control"
    /\ \E ok \in BOOLEAN :
          mainPc' = IF ok THEN "init_acquire" ELSE "aborted"
    /\ UNCHANGED <<shared, tkVars, loopPc, guiPc, loopLocals, volume_value,
                   loopHist, envHist>>

\* line 195: with volume_lock
InitAcquire ==
    /\ mainPc = "init_acquire"
    /\ Acquire("main")
    /\ mainPc' = "init_read"
    /\ UNCHANGED <<sysVol, last_volume_set_by_app, sysVolSrc, tkVars, loopPc,
                   guiPc, loopLocals, volume_value, loopHist, envHist>>

\* variant: the except clause does not return
InitReadNoReturn ==
    /\ mainPc = "init_read"
    /\ \/ /\ last_volume_set_by_app' = sysVol
          /\ mainPc' = "init_release"
          /\ UNCHANGED volume_lock
       \/ /\ Release("main")
          /\ mainPc' = "create_gui"
          /\ UNCHANGED last_volume_set_by_app
    /\ UNCHANGED <<sysVol, sysVolSrc, tkVars, loopPc, guiPc, loopLocals,
                   volume_value, loopHist, envHist>>

\* line 196: the tracker takes the live volume; a raising read leaves the
\* with block (the lock is released) and lands in the except clause
InitRead ==
    /\ mainPc = "init_read"
    /\ \/ /\ last_volume_set_by_app' = sysVol
          /\ mainPc' = "init_release"
          /\ UNCHANGED volume_lock
       \/ /\ Release("main")
          /\ mainPc' = "aborted"
          /\ UNCHANGED last_volume_set_by_app
    /\ UNCHANGED <<sysVol, sysVolSrc, tkVars, loopPc, guiPc, loopLocals,
                   volume_value, loopHist, envHist>>
InitRelease ==
    /\ mainPc = "init_release"
    /\ Release("main")
    /\ mainPc' = "create_gui"
    /\ UNCHANGED <<sysVol, last_volume_set_by_app, sysVolSrc, tkVars, loopPc,
                   guiPc, loopLocals, volume_value, loopHist, envHist>>

\* lines 110-186: the Tk variables get their initial values; toggle_listening()
\* at line 177 flips listening_var from True to False.  A raising volume read
\* at line 131 is not caught and ends main().
CreateGui ==
    /\ mainPc = "create_gui"
    /\ \/ /\ sensitivity_var' = DEFAULT_SENSITIVITY
          /\ toggle_var' = TRUE
          /\ listening_var' = ~TRUE
          /\ base_volume_var' = sysVol
          /\ mainPc' = "start_thread"
       \/ /\ mainPc' = "aborted"
          /\ UNCHANGED tkVars
    /\ UNCHANGED <<shared, loopPc, guiPc, loopLocals, volume_value, loopHist,
                   envHist>>

\* lines 204-218: the loop thread starts and main() enters root.mainloop()
StartThread ==
    /\ mainPc = "start_thread"
    /\ mainPc' = "mainloop"
    /\ loopPc' = "pause_check"
    /\ guiPc' = "idle"
    /\ UNCHANGED <<shared, tkVars, loopLocals, volume_value, loopHist, envHist>>

\* ------------------------------------------------------------ GUI thread
\* line 144: the Checkbutton flips toggle_var
ToggleAuto ==
    /\ MainloopIdle
    /\ toggle_var' = ~toggle_var
    /\ Disturb
    /\ UNCHANGED <<shared, listening_var, base_volume_var, sensitivity_var,
                   mainPc, loopPc, guiPc, loopLocals, volume_value, loopHist,
                   extPending, sliderWrite, extCount, sliderCount>>
    /\ sliderMode' = "none"

\* lines 171-174: toggle_listening
ToggleListening ==
    /\ MainloopIdle
    /\ listening_var' = ~listening_var
    /\ extPending' = IF listening_var THEN {} ELSE extPending
    /\ UNCHANGED <<shared, toggle_var, base_volume_var, sensitivity_var,
                   mainPc, loopPc, guiPc, loopLocals, volume_value, loopHist,
                   sliderWrite, cycleClean, settled, extCount, sliderCount>>
    /\ sliderMode' = "none"

\* line 139: the sensitivity Scale writes sensitivity_var
SetSensitivity ==
    /\ MainloopIdle
    /\ \E s \in Sensitivities \ {sensitivity_var} : sensitivity_var' = s
    /\ UNCHANGED <<shared, toggle_var, listening_var, base_volume_var,
                   mainPc, loopPc, guiPc, loopLocals, volume_value, loopHist,
                   envHist>>

\* lines 160-168 and 148-153: the user moves the base-volume Scale; Tk stores
\* the value in base_volume_var and calls on_manual_slider_change(value),
\* which reads toggle_var
SliderMove ==
    /\ MainloopIdle
    /\ sliderCount < MaxSlider
    /\ \E v \in SliderVolumes \ {base_volume_var} :
          /\ base_volume_var' = v
          /\ volume_value' = v
    /\ guiPc' = IF ~toggle_var THEN "slider_set" ELSE "slider_acquire"
    /\ sliderCount' = sliderCount + 1
    /\ extPending' = {}
    /\ UNCHANGED <<shared, toggle_var, listening_var, sensitivity_var, mainPc,
                   loopPc, loopLocals, loopHist, sliderWrite, cycleClean,
                   settled, extCount>>
    /\ sliderMode' = "none"

\* line 154: SetMasterVolumeLevelScalar(volume_value); when it raises, the
\* callback ends there
SliderSet ==
    /\ guiPc = "slider_set"
    /\ \/ /\ sysVol' = volume_value
          /\ sysVolSrc' = "slider"
          /\ guiPc' = "slider_acquire"
          /\ extPending' = {}
          /\ IF volume_value # sysVol
                THEN Disturb
                ELSE UNCHANGED <<cycleClean, settled>>
          /\ UNCHANGED volume_value
       \/ /\ guiPc' = "idle"
          /\ volume_value' = MIN_VOLUME
          /\ UNCHANGED <<sysVol, sysVolSrc, extPending, cycleClean, settled>>
    /\ UNCHANGED <<last_volume_set_by_app, volume_lock, tkVars, mainPc, loopPc,
                   loopLocals, loopHist, sliderWrite, extCount, sliderCount>>
    /\ UNCHANGED sliderMode

\* line 156: with volume_lock
SliderAcquire ==
    /\ guiPc = "slider_acquire"
    /\ Acquire("gui")
    /\ guiPc' = "slider_write"
    /\ UNCHANGED <<sysVol, last_volume_set_by_app, sysVolSrc, tkVars, mainPc,
                   loopPc, loopLocals, volume_value, loopHist, envHist>>

\* line 157: last_volume_set_by_app = volume_value
SliderWrite ==
    /\ guiPc = "slider_write"
    /\ last_volume_set_by_app' = volume_value
    /\ sliderWrite' = {volume_value}
    /\ extPending' = {}
    /\ guiPc' = "slider_release"
    /\ UNCHANGED <<sysVol, volume_lock, sysVolSrc, tkVars, mainPc, loopPc,
                   loopLocals, volume_value, loopHist, cycleClean, settled,
                   extCount, sliderCount>>
    /\ UNCHANGED sliderMode

\* end of the with block of lines 156-157; the callback returns and its
\* local is gone
SliderRelease ==
    /\ guiPc = "slider_release"
    /\ Release("gui")
    /\ guiPc' = "idle"
    /\ volume_value' = MIN_VOLUME
    /\ sliderMode' = IF toggle_var THEN "auto" ELSE "manual"
    /\ UNCHANGED <<sysVol, last_volume_set_by_app, sysVolSrc, tkVars, mainPc,
                   loopPc, loopLocals, loopHist, extPending, sliderWrite,
                   cycleClean, settled, extCount, sliderCount>>

\* ------------------------------------------------------------ external actor
\* keyboard keys or another application set the master volume
LoopRunning == loopPc \notin {"not_started", "terminated"}

External ==
    /\ extCount < MaxExternal
    /\ \E c \in ExternalVolumes \ {sysVol} :
          /\ sysVol' = c
          /\ extPending' =
                IF LoopRunning /\ listening_var
                   /\ Abs(c - last_volume_set_by_app) > Tolerance
                THEN {c} ELSE {}
    /\ sysVolSrc' = "external"
    /\ extCount' = extCount + 1
    /\ Disturb
    /\ UNCHANGED <<last_volume_set_by_app, volume_lock, tkVars, mainPc, loopPc,
                   guiPc, loopLocals, volume_value, loopHist, sliderWrite,
                   sliderCount>>
    /\ sliderMode' = "none"

\* ------------------------------------------------------------ monitor_noise()
\* variant: a listening cycle goes straight to the auto-mode check
PauseCheckSkipDetection ==
    /\ loopPc = "pause_check"
    /\ MainloopIdle
    /\ cycleLog' = <<"get_listen_state">>
    /\ loopPc' = IF listening_var THEN "toggle_check" ELSE "paused_sleep"
    /\ cycleClean' = listening_var
    /\ UNCHANGED <<shared, tkVars, mainPc, guiPc, loopLocals, volume_value,
                   curSrc, tracked, eventArg, sampleFailed, extPending,
                   sliderWrite, settled, extCount, sliderCount>>
    /\ UNCHANGED <<ioFailed, sliderMode>>

\* lines 55-58: get_listen_state() starts the cycle
PauseCheck ==
    /\ loopPc = "pause_check"
    /\ MainloopIdle
    /\ cycleLog' = <<"get_listen_state">>
    /\ loopPc' = AfterPauseCheck(listening_var)
    /\ cycleClean' = listening_var
    /\ UNCHANGED <<shared, tkVars, mainPc, guiPc, loopLocals, volume_value,
                   curSrc, tracked, eventArg, sampleFailed, extPending,
                   sliderWrite, settled, extCount, sliderCount>>
    /\ UNCHANGED <<ioFailed, sliderMode>>

\* line 57: time.sleep(1); continue
PausedSleep ==
    /\ loopPc = "paused_sleep"
    /\ loopPc' = "pause_check"
    /\ cycleLog' = <<>>
    /\ UNCHANGED <<shared, tkVars, mainPc, guiPc, loopLocals, volume_value,
                   curSrc, tracked, eventArg, sampleFailed, envHist>>
    /\ UNCHANGED ioFailed

\* variant: a raising read is tried again
ReadVolumeRetry ==
    /\ loopPc = "read_volume"
    /\ cycleLog' = Append(cycleLog, "GetMasterVolumeLevelScalar")
    /\ \/ /\ current_system_volume' = sysVol
          /\ curSrc' = sysVolSrc
          /\ loopPc' = "detect_acquire"
          /\ UNCHANGED ioFailed
       \/ /\ loopPc' = "read_volume"
          /\ ioFailed' = TRUE
          /\ UNCHANGED <<current_system_volume, curSrc>>
    /\ UNCHANGED <<shared, tkVars, mainPc, guiPc, base_volume, noise,
                   sensitivity, final_volume, volume_value, tracked, eventArg,
                   sampleFailed, envHist>>

\* line 61: GetMasterVolumeLevelScalar(); when it raises, the thread ends
ReadVolume ==
    /\ loopPc = "read_volume"
    /\ cycleLog' = Append(cycleLog, "GetMasterVolumeLevelScalar")
    /\ \/ /\ current_system_volume' = sysVol
          /\ curSrc' = sysVolSrc
          /\ loopPc' = "detect_acquire"
          /\ UNCHANGED ioFailed
       \/ /\ loopPc' = "terminated"
          /\ ioFailed' = TRUE
          /\ UNCHANGED <<current_system_volume, curSrc>>
    /\ UNCHANGED <<shared, tkVars, mainPc, guiPc, base_volume, noise,
                   sensitivity, final_volume, volume_value, tracked, eventArg,
                   sampleFailed, envHist>>

\* line 63: with volume_lock
DetectAcquire ==
    /\ loopPc = "detect_acquire"
    /\ Acquire("loop")
    /\ loopPc' = "detect_compare"
    /\ UNCHANGED <<sysVol, last_volume_set_by_app, sysVolSrc, tkVars, mainPc,
                   guiPc, loopLocals, volume_value, loopHist, envHist>>

\* line 66: the comparison against the tracker
DetectCompare ==
    /\ loopPc = "detect_compare"
    /\ tracked' = last_volume_set_by_app
    /\ loopPc' = IF ExternalChange(current_system_volume, last_volume_set_by_app)
                 THEN "detect_notify" ELSE "detect_release"
    /\ UNCHANGED <<shared, tkVars, mainPc, guiPc, loopLocals, volume_value,
                   curSrc, cycleLog, eventArg, sampleFailed, envHist>>
    /\ UNCHANGED ioFailed

\* lines 69 and 183-184: update_base_volume_in_gui(current_system_volume),
\* a base_volume_var.set() served by the GUI thread
DetectNotify ==
    /\ loopPc = "detect_notify"
    /\ MainloopIdle
    /\ base_volume_var' = current_system_volume
    /\ cycleLog' = Append(cycleLog, "update_base_volume_in_gui")
    /\ eventArg' = {current_system_volume}
    /\ extPending' = extPending \ {current_system_volume}
    /\ loopPc' = "detect_adopt"
    /\ UNCHANGED <<shared, toggle_var, listening_var, sensitivity_var, mainPc,
                   guiPc, loopLocals, volume_value, curSrc, tracked,
                   sampleFailed, sliderWrite, cycleClean, settled, extCount,
                   sliderCount>>
    /\ UNCHANGED <<ioFailed, sliderMode>>

\* line 71: last_volume_set_by_app = current_system_volume
DetectAdopt ==
    /\ loopPc = "detect_adopt"
    /\ last_volume_set_by_app' = current_system_volume
    /\ loopPc' = "detect_release"
    /\ UNCHANGED <<sysVol, volume_lock, sysVolSrc, tkVars, mainPc, guiPc,
                   loopLocals, volume_value, loopHist, envHist>>

\* end of the with block of lines 63-71
DetectRelease ==
    /\ loopPc = "detect_release"
    /\ Release("loop")
    /\ sliderWrite' = {}
    /\ loopPc' = "toggle_check"
    /\ UNCHANGED <<sysVol, last_volume_set_by_app, sysVolSrc, tkVars, mainPc,
                   guiPc, loopLocals, volume_value, loopHist, extPending,
                   cycleClean, settled, extCount, sliderCount>>
    /\ UNCHANGED sliderMode

\* line 74 / line 99: get_toggle_state()
ToggleCheck ==
    /\ loopPc = "toggle_check"
    /\ MainloopIdle
    /\ cycleLog' = Append(cycleLog, "get_toggle_state")
    /\ loopPc' = IF toggle_var THEN "get_base" ELSE "manual_acquire"
    /\ UNCHANGED <<shared, tkVars, mainPc, guiPc, loopLocals, volume_value,
                   curSrc, tracked, eventArg, sampleFailed, envHist>>
    /\ UNCHANGED ioFailed

\* line 75: base_volume = get_base_volume()
GetBase ==
    /\ loopPc = "get_base"
    /\ MainloopIdle
    /\ base_volume' = base_volume_var
    /\ cycleLog' = Append(cycleLog, "get_base_volume")
    /\ loopPc' = "sample_noise"
    /\ UNCHANGED <<shared, tkVars, mainPc, guiPc, current_system_volume, noise,
                   sensitivity, final_volume, volume_value, curSrc, tracked,
                   eventArg, sampleFailed, envHist>>
    /\ UNCHANGED ioFailed

\* lines 76 and 27-36: noise = get_noise_level()
SampleNoise ==
    /\ loopPc = "sample_noise"
    /\ \E ok \in BOOLEAN : \E rms \in NoiseLevels :
          /\ noise' = NoiseResult(ok, rms)
          /\ sampleFailed' = ~ok
    /\ cycleLog' = Append(cycleLog, "get_noise_level")
    /\ loopPc' = "get_sensitivity"
    /\ UNCHANGED <<shared, tkVars, mainPc, guiPc, current_system_volume,
                   base_volume, sensitivity, final_volume, volume_value,
                   curSrc, tracked, eventArg, envHist>>
    /\ UNCHANGED ioFailed

\* lines 77-88: sensitivity = get_sensitivity(), then the target volume
GetSensitivity ==
    /\ loopPc = "get_sensitivity"
    /\ MainloopIdle
    /\ sensitivity' = sensitivity_var
    /\ final_volume' = Clamp(RawVolume(base_volume, noise, sensitivity_var))
    /\ cycleLog' = Append(cycleLog, "get_sensitivity")
    /\ loopPc' = "set_volume"
    /\ UNCHANGED <<shared, tkVars, mainPc, guiPc, current_system_volume,
                   base_volume, noise, volume_value, curSrc, tracked,
                   eventArg, sampleFailed, envHist>>
    /\ UNCHANGED ioFailed

\* line 91: SetMasterVolumeLevelScalar(final_volume); when it raises, the
\* thread ends
SetVolume ==
    /\ loopPc = "set_volume"
    /\ cycleLog' = Append(cycleLog, "SetMasterVolumeLevelScalar")
    /\ \/ /\ sysVol' = final_volume
          /\ sysVolSrc' = "loop"
          /\ loopPc' = "auto_acquire"
          /\ IF final_volume # sysVol
                THEN Disturb
                ELSE UNCHANGED <<cycleClean, settled>>
          /\ UNCHANGED ioFailed
       \/ /\ loopPc' = "terminated"
          /\ ioFailed' = TRUE
          /\ UNCHANGED <<sysVol, sysVolSrc, cycleClean, settled>>
    /\ UNCHANGED <<last_volume_set_by_app, volume_lock, tkVars, mainPc, guiPc,
                   loopLocals, volume_value, curSrc, tracked, eventArg,
                   sampleFailed, extPending, sliderWrite, sliderMode, extCount,
                   sliderCount>>

\* line 93: with volume_lock
AutoAcquire ==
    /\ loopPc = "auto_acquire"
    /\ Acquire("loop")
    /\ loopPc' = "auto_write"
    /\ UNCHANGED <<sysVol, last_volume_set_by_app, sysVolSrc, tkVars, mainPc,
                   guiPc, loopLocals, volume_value, loopHist, envHist>>

\* line 95: last_volume_set_by_app = final_volume
AutoWrite ==
    /\ loopPc = "auto_write"
    /\ last_volume_set_by_app' = final_volume
    /\ loopPc' = "auto_release"
    /\ UNCHANGED <<sysVol, volume_lock, sysVolSrc, tkVars, mainPc, guiPc,
                   loopLocals, volume_value, loopHist, envHist>>
AutoRelease ==
    /\ loopPc = "auto_release"
    /\ Release("loop")
    /\ loopPc' = "cycle_sleep"
    /\ UNCHANGED <<sysVol, last_volume_set_by_app, sysVolSrc, tkVars, mainPc,
                   guiPc, loopLocals, volume_value, loopHist, envHist>>

\* line 101: with volume_lock
ManualAcquire ==
    /\ loopPc = "manual_acquire"
    /\ Acquire("loop")
    /\ loopPc' = "manual_write"
    /\ UNCHANGED <<sysVol, last_volume_set_by_app, sysVolSrc, tkVars, mainPc,
                   guiPc, loopLocals, volume_value, loopHist, envHist>>

\* variant: the manual branch stores a fresh read of the system volume
ManualWriteFresh ==
    /\ loopPc = "manual_write"
    /\ last_volume_set_by_app' = sysVol
    /\ loopPc' = "manual_release"
    /\ UNCHANGED <<sysVol, volume_lock, sysVolSrc, tkVars, mainPc, guiPc,
                   loopLocals, volume_value, loopHist, envHist>>

\* variant: the manual branch leaves the tracker alone
ManualWriteSkipped ==
    /\ loopPc = "manual_write"
    /\ loopPc' = "manual_release"
    /\ UNCHANGED <<shared, tkVars, mainPc, guiPc, loopLocals, volume_value,
                   loopHist, envHist>>

\* line 102: last_volume_set_by_app = current_system_volume
ManualWrite ==
    /\ loopPc = "manual_write"
    /\ last_volume_set_by_app' = current_system_volume
    /\ loopPc' = "manual_release"
    /\ UNCHANGED <<sysVol, volume_lock, sysVolSrc, tkVars, mainPc, guiPc,
                   loopLocals, volume_value, loopHist, envHist>>
ManualRelease ==
    /\ loopPc = "manual_release"
    /\ Release("loop")
    /\ loopPc' = "cycle_sleep"
    /\ UNCHANGED <<sysVol, last_volume_set_by_app, sysVolSrc, tkVars, mainPc,
                   guiPc, loopLocals, volume_value, loopHist, envHist>>

\* lines 104-106: time.sleep(0.5) in manual mode, time.sleep(UPDATE_INTERVAL).
\* The locals are dead here (the next cycle assigns each one before reading
\* it), so they are put back to their initial values, and the cycle's
\* history ends.
CycleSleep ==
    /\ loopPc = "cycle_sleep"
    /\ loopPc' = "pause_check"
    /\ settled' = (settled \/ (cycleClean /\ ~toggle_var))
    /\ cycleClean' = FALSE
    /\ current_system_volume' = MIN_VOLUME
    /\ base_volume' = MIN_VOLUME
    /\ noise' = 0
    /\ sensitivity' = DEFAULT_SENSITIVITY
    /\ final_volume' = MIN_VOLUME
    /\ curSrc' = "external"
    /\ tracked' = UNINITIALIZED
    /\ cycleLog' = <<>>
    /\ eventArg' = {}
    /\ sampleFailed' = FALSE
    /\ UNCHANGED <<shared, tkVars, mainPc, guiPc, volume_value, extPending,
                   sliderWrite, extCount, sliderCount>>
    /\ UNCHANGED <<ioFailed, sliderMode>>
\* ------------------------------------------------------------ specification
Next ==
    \/ GetVolumeControl \/ InitAcquire \/ InitRead \/ InitRelease
    \/ CreateGui \/ StartThread
    \/ ToggleAuto \/ ToggleListening \/ SetSensitivity
    \/ SliderMove \/ SliderSet \/ SliderAcquire \/ SliderWrite \/ SliderRelease
    \/ External
    \/ PauseCheck \/ PausedSleep \/ ReadVolume
    \/ DetectAcquire \/ DetectCompare \/ DetectNotify \/ DetectAdopt
    \/ DetectRelease
    \/ ToggleCheck \/ GetBase \/ SampleNoise \/ GetSensitivity \/ SetVolume
    \/ AutoAcquire \/ AutoWrite \/ AutoRelease
    \/ ManualAcquire \/ ManualWrite \/ ManualRelease
    \/ CycleSleep

Spec == Init /\ [][Next]_vars

\* the steps of the loop thread
LoopNext ==
    \/ PauseCheck \/ PausedSleep \/ ReadVolume
    \/ DetectAcquire \/ DetectCompare \/ DetectNotify \/ DetectAdopt
    \/ DetectRelease
    \/ ToggleCheck \/ GetBase \/ SampleNoise \/ GetSensitivity \/ SetVolume
    \/ AutoAcquire \/ AutoWrite \/ AutoRelease
    \/ ManualAcquire \/ ManualWrite \/ ManualRelease
    \/ CycleSleep

\* ------------------------------------------- the target computation alone
\* An auto-mode cycle at line 77: listening and auto-mode on, the detection
\* found nothing, base_volume and noise have been read (lines 75-76) with
\* values drawn from the input sets; the sensitivity scale is at any position.
TargetInit ==
    /\ sysVol \in InitialVolumes
    /\ last_volume_set_by_app = sysVol
    /\ volume_lock = "free"
    /\ toggle_var = TRUE
    /\ listening_var = TRUE
    /\ base_volume_var \in TargetBases
    /\ sensitivity_var \in TargetSensitivities
    /\ mainPc = "mainloop"
    /\ loopPc = "get_sensitivity"
    /\ guiPc = "idle"
    /\ current_system_volume = sysVol
    /\ base_volume = base_volume_var
    /\ noise \in TargetNoises
    /\ sensitivity = DEFAULT_SENSITIVITY
    /\ final_volume = MIN_VOLUME
    /\ volume_value = MIN_VOLUME
    /\ sysVolSrc = "external"
    /\ curSrc = "external"
    /\ tracked = sysVol
    /\ cycleLog = <<"get_listen_state", "GetMasterVolumeLevelScalar",
                    "get_toggle_state", "get_base_volume", "get_noise_level">>
    /\ eventArg = {}
    /\ sampleFailed = FALSE
    /\ extPending = {}
    /\ sliderWrite = {}
    /\ cycleClean = TRUE
    /\ settled = FALSE
    /\ ioFailed = FALSE
    /\ sliderMode = "none"
    /\ extCount = 0
    /\ sliderCount = 0

\* lines 77-95: the rest of the auto branch
TargetNext ==
    \/ GetSensitivity \/ SetVolume
    \/ AutoAcquire \/ AutoWrite \/ AutoRelease

TargetSpec == TargetInit /\ [][TargetNext]_vars

\* ------------------------------------------------------------ properties
\* positions of the loop after the detection's comparison, inside the cycle
AfterDetect ==
    loopPc \in {"detect_release", "toggle_check", "get_base", "sample_noise",
                "get_sensitivity", "set_volume", "auto_acquire", "auto_write",
                "auto_release", "manual_acquire", "manual_write",
                "manual_release", "cycle_sleep"}

\* positions inside a "with volume_lock:" block
LoopInCS ==
    loopPc \in {"detect_compare", "detect_notify", "detect_adopt",
                "detect_release", "auto_write", "auto_release", "manual_write",
                "manual_release"}

GuiInCS == guiPc \in {"slider_write", "slider_release"}

MainInCS == mainPc \in {"init_read", "init_release"}

LoopStep == loopPc' # loopPc

GuiStep == guiPc' # guiPc /\ mainPc' = mainPc

MainStep == mainPc' # mainPc

EventsThisCycle == Count(cycleLog, "update_base_volume_in_gui")

\* C1: detection threshold.  In a non-paused cycle, with current the volume
\* read at the start of the cycle and tracked the tracker value compared under
\* the lock: if |current - tracked| <= 0.015 no update_base_volume_in_gui call
\* is made in the cycle and the detection leaves the tracker as it was; if
\* |current - tracked| > 0.015 exactly one call is made, with argument current,
\* and the tracker equals current when the lock is released.
C1_DetectionThreshold ==
    /\ AfterDetect =>
          IF Abs(current_system_volume - tracked) <= 15
          THEN EventsThisCycle = 0 /\ eventArg = {}
          ELSE EventsThisCycle = 1 /\ eventArg = {current_system_volume}
    /\ loopPc = "detect_release" =>
          last_volume_set_by_app =
             IF Abs(current_system_volume - tracked) <= 15
             THEN tracked ELSE current_system_volume

\* a detection that fired one step above the tolerance
C1_Witness ==
    /\ loopPc = "detect_release"
    /\ current_system_volume - tracked = 16
    /\ eventArg = {current_system_volume}
    /\ last_volume_set_by_app = current_system_volume

\* C2: clamping.  Every value the auto branch passes to
\* SetMasterVolumeLevelScalar and then writes to the tracker lies in
\* [0.0, 1.0], also when base + (noise - 0.005) * sensitivity is outside.
C2_Clamping ==
    /\ loopPc \in {"set_volume", "auto_acquire", "auto_write", "auto_release"}
          => (0 <= final_volume /\ final_volume <= 1000)
    /\ loopPc = "auto_release"
          => (0 <= last_volume_set_by_app /\ last_volume_set_by_app <= 1000)
    /\ sysVolSrc = "loop" => (0 <= sysVol /\ sysVol <= 1000)

\* an auto cycle whose raw target was above 1.0 and was applied as 1.0
C2_Witness ==
    /\ loopPc = "auto_release"
    /\ base_volume + (noise - 5) * sensitivity > 1000
    /\ last_volume_set_by_app = 1000
    /\ sysVol = 1000

\* C3: pause semantics.  A cycle whose pause check reads listening = False
\* makes no other call (no volume read or write, no noise sample, no
\* update_base_volume_in_gui), leaves the tracker and the system volume alone
\* and goes back to the pause check.
C3_PauseSemantics ==
    [][ /\ (loopPc = "pause_check" /\ ~listening_var /\ LoopStep) =>
              /\ loopPc' = "paused_sleep"
              /\ cycleLog' = <<"get_listen_state">>
              /\ eventArg' = {}
              /\ UNCHANGED <<sysVol, last_volume_set_by_app, base_volume_var,
                             volume_lock>>
        /\ (loopPc = "paused_sleep" /\ LoopStep) =>
              /\ loopPc' = "pause_check"
              /\ UNCHANGED <<sysVol, last_volume_set_by_app, base_volume_var,
                             volume_lock, eventArg>>
      ]_vars

\* a paused cycle while the system volume is away from the tracker
C3_Witness ==
    /\ loopPc = "paused_sleep"
    /\ ~listening_var
    /\ Abs(sysVol - last_volume_set_by_app) > 15
    /\ cycleLog = <<"get_listen_state">>

\* C4: mutual exclusion on the tracker.  At most one thread is inside a
\* "with volume_lock:" block, the thread inside holds the lock, every write
\* of the tracker is made by the thread that holds the lock, the detection's
\* comparison reads it under the lock, and while the loop is inside the
\* detection block no other thread changes the tracker.
C4_MutualExclusion ==
    [][ /\ ~(LoopInCS /\ GuiInCS)
        /\ ~(LoopInCS /\ MainInCS)
        /\ ~(GuiInCS /\ MainInCS)
        /\ LoopInCS => volume_lock = "loop"
        /\ GuiInCS => volume_lock = "gui"
        /\ MainInCS => volume_lock = "main"
        /\ last_volume_set_by_app' # last_volume_set_by_app =>
              \/ LoopStep /\ LoopInCS /\ volume_lock = "loop"
              \/ GuiStep /\ GuiInCS /\ volume_lock = "gui"
              \/ MainStep /\ MainInCS /\ volume_lock = "main"
        /\ (loopPc \in {"detect_compare", "detect_notify", "detect_adopt",
                        "detect_release"} /\ ~LoopStep)
              => last_volume_set_by_app' = last_volume_set_by_app
      ]_vars

\* the slider handler waits for the lock while the detection holds it
C4_Witness ==
    /\ loopPc = "detect_adopt"
    /\ volume_lock = "loop"
    /\ guiPc = "slider_acquire"

\* C5: lock scope.  No thread holds volume_lock while a volume get/set, a
\* noise sample or update_base_volume_in_gui is being called.
C5_LockScope ==
    /\ volume_lock = "loop" =>
          loopPc \notin {"detect_notify", "read_volume", "sample_noise",
                         "set_volume"}
    /\ volume_lock = "gui" => guiPc # "slider_set"
    /\ volume_lock = "main" => mainPc # "init_read"

\* C6: external changes are never lost.  While an external value c that was
\* more than 0.015 away from the tracker is neither reported by
\* update_base_volume_in_gui(c) nor followed by a later external or slider
\* change, the system volume is not overwritten and the tracker does not come
\* within the tolerance of c.
C6_ExternalNeverLost ==
    [][ (extPending # {} /\ extPending' = extPending) =>
           /\ sysVol' = sysVol
           /\ \A c \in extPending : Abs(c - last_volume_set_by_app') > 15
      ]_vars

\* C7: no self-detection.  update_base_volume_in_gui is called only with a
\* system volume that an external actor produced, never with one the loop
\* or the slider handler wrote.
C7_NoSelfDetection ==
    loopPc = "detect_adopt" => curSrc = "external"

\* C8: foreground write visibility.  When the slider handler has set the
\* system volume and the tracker to the same v, the next detection that
\* reads v compares it against v.
C8_SliderWriteVisible ==
    (/\ loopPc \in {"detect_notify", "detect_adopt", "detect_release"}
     /\ sliderWrite = {current_system_volume}
     /\ curSrc = "slider")
        => tracked = current_system_volume

\* C9: idempotence under no external change.  Once a whole manual-mode cycle
\* has run with auto-mode off and the system volume constant, the tracker
\* equals the system volume and no update_base_volume_in_gui call is made,
\* for as long as neither changes.
C9_Idempotence ==
    settled =>
        /\ last_volume_set_by_app = sysVol
        /\ loopPc \notin {"detect_notify", "detect_adopt"}

\* a later cycle's detection, after an external change, finds nothing to do
C9_Witness ==
    /\ settled
    /\ loopPc = "detect_release"
    /\ sysVolSrc = "external"
    /\ extCount > 0
    /\ tracked = sysVol

\* C10: a failed noise capture does not end the loop; the cycle goes on with
\* noise = 0.0, applies clamp(base + (0.0 - 0.005) * sensitivity), records it
\* in the tracker and reaches the next cycle.
C10_SamplingFailure ==
    [][ /\ (loopPc = "sample_noise" /\ LoopStep) =>
              /\ loopPc' = "get_sensitivity"
              /\ sampleFailed' => noise' = 0
        /\ (sampleFailed /\ loopPc \in {"set_volume", "auto_acquire",
                                        "auto_write", "auto_release"}) =>
              final_volume =
                 Min(1000, Max(0, base_volume + (0 - 5) * sensitivity))
        /\ (sampleFailed /\ loopPc = "auto_write" /\ LoopStep) =>
              /\ last_volume_set_by_app' = final_volume
              /\ loopPc' = "auto_release"
        /\ (sampleFailed /\ loopPc = "auto_release" /\ LoopStep) =>
              loopPc' = "cycle_sleep"
        /\ (sampleFailed /\ loopPc = "cycle_sleep" /\ LoopStep) =>
              loopPc' = "pause_check"
      ]_vars

\* a cycle whose capture failed has applied and recorded its target
C10_Witness ==
    /\ sampleFailed
    /\ loopPc = "cycle_sleep"
    /\ noise = 0
    /\ sysVol = final_volume
    /\ last_volume_set_by_app = final_volume

\* C11: a volume I/O failure is fatal to the loop only.  A raising
\* GetMasterVolumeLevelScalar or SetMasterVolumeLevelScalar inside a cycle ends
\* the loop thread at once (no retry) with volume_lock not held by it; from
\* then on the loop makes no step: no volume call or callback is added to the
\* cycle's log, the tracker is written only by the slider handler, the system
\* volume only by the slider handler or the external actor, the Tk variables
\* only by the user; and a slider handler waiting for volume_lock finds it free.
C11_FatalToLoopOnly ==
    [][/\ ioFailed' <=> loopPc' = "terminated"
       /\ (ioFailed' /\ ~ioFailed) =>
              /\ loopPc \in {"read_volume", "set_volume"}
              /\ volume_lock' # "loop"
              /\ UNCHANGED <<sysVol, last_volume_set_by_app, tkVars>>
       /\ loopPc = "terminated" =>
              /\ loopPc' = "terminated"
              /\ UNCHANGED <<cycleLog, loopLocals>>
              /\ volume_lock' # "loop"
              /\ last_volume_set_by_app' # last_volume_set_by_app =>
                     guiPc = "slider_write"
              /\ sysVol' # sysVol =>
                     guiPc = "slider_set" \/ extCount' # extCount
              /\ tkVars' # tkVars => MainloopIdle
       /\ (loopPc' = "terminated" /\ guiPc' = "slider_acquire") =>
              volume_lock' = "free"
      ]_vars

\* the loop has ended on an I/O failure and a slider handler has written the
\* tracker under the lock
C11_Witness ==
    /\ loopPc = "terminated"
    /\ ioFailed
    /\ guiPc = "slider_release"
    /\ volume_lock = "gui"
    /\ last_volume_set_by_app = volume_value

\* C12: initialization before concurrency.  The tracker leaves the sentinel
\* -1.0 only by main()'s read of the live system volume, made while neither
\* the loop thread nor the mainloop has started; once either has started the
\* tracker is never the sentinel, and the value a detection compared against
\* is never the sentinel; when startup fails, the loop and the foreground
\* surface are never started.
C12_InitBeforeConcurrency ==
    [][/\ (last_volume_set_by_app = UNINITIALIZED
           /\ last_volume_set_by_app' # UNINITIALIZED) =>
              /\ mainPc = "init_read"
              /\ last_volume_set_by_app' = sysVol
              /\ loopPc = "not_started" /\ guiPc = "not_started"
       /\ (loopPc' # "not_started" \/ guiPc' # "not_started") =>
              /\ last_volume_set_by_app' # UNINITIALIZED
              /\ mainPc' = "mainloop"
       /\ (AfterDetect' \/ loopPc' \in {"detect_notify", "detect_adopt"}) =>
              tracked' # UNINITIALIZED
       /\ mainPc = "aborted" =>
              /\ mainPc' = "aborted"
              /\ loopPc' = "not_started" /\ guiPc' = "not_started"
      ]_vars

\* the first detection has compared the volume it read with the tracker value
\* that main() stored
C12_Witness ==
    /\ loopPc = "detect_release"
    /\ tracked \in InitialVolumes
    /\ tracked = last_volume_set_by_app
    /\ sliderCount = 0

\* positions of the auto branch after the target was computed (line 88)
TargetComputed ==
    loopPc \in {"set_volume", "auto_acquire", "auto_write", "auto_release"}

\* C13: monotonic noise response.  For the base and the sensitivity (> 0) of
\* a cycle and its noise n1, every noise level n2 >= n1 gives a pre-clamp
\* target base + (n2 - 0.005) * sensitivity that is at least the cycle's
\* pre-clamp target, and a clamped volume that is at least the cycle's
\* computed final_volume.
C13_MonotonicNoise ==
    (TargetComputed /\ sensitivity > 0) =>
        \A n2 \in TargetNoises :
            noise <= n2 =>
                /\ RawVolume(base_volume, noise, sensitivity)
                      <= RawVolume(base_volume, n2, sensitivity)
                /\ final_volume
                      <= Clamp(RawVolume(base_volume, n2, sensitivity))

\* a cycle at resting noise applied 0.5, and a louder room gives strictly more
C13_Witness ==
    /\ loopPc = "auto_release"
    /\ base_volume = 500 /\ sensitivity = 20 /\ noise = RESTING_NOISE_LEVEL
    /\ final_volume = 500
    /\ \E n2 \in TargetNoises :
          /\ noise < n2
          /\ final_volume < Clamp(RawVolume(base_volume, n2, sensitivity))

\* C14: target formula.  In an auto-adjust cycle the volume handed to
\* SetMasterVolumeLevelScalar and the value written to the tracker both equal
\* min(1.0, max(0.0, base + (noise - 0.005) * sensitivity)) for the base,
\* noise and sensitivity read in the cycle; (0.5, 20, 0.005) gives 0.5,
\* (0.5, 20, 0.02) gives 0.8 and (0.9, 50, 0.01) gives 1.0.
C14_TargetFormula ==
    [][/\ (loopPc = "set_volume" /\ loopPc' = "auto_acquire") =>
              sysVol' = Min(1000, Max(0, base_volume + (noise - 5) * sensitivity))
       /\ (loopPc = "auto_write" /\ loopPc' = "auto_release") =>
              last_volume_set_by_app' =
                  Min(1000, Max(0, base_volume + (noise - 5) * sensitivity))
       /\ (loopPc = "auto_write" /\ loopPc' = "auto_release") =>
              /\ (base_volume = 500 /\ sensitivity = 20 /\ noise = 5) =>
                     last_volume_set_by_app' = 500 /\ sysVol' = 500
              /\ (base_volume = 500 /\ sensitivity = 20 /\ noise = 20) =>
                     last_volume_set_by_app' = 800 /\ sysVol' = 800
              /\ (base_volume = 900 /\ sensitivity = 50 /\ noise = 10) =>
                     last_volume_set_by_app' = 1000 /\ sysVol' = 1000
      ]_vars

\* the cycle with base 0.9, sensitivity 50 and noise 0.01 has applied and
\* recorded 1.0, its raw target being 1.15
C14_Witness ==
    /\ loopPc = "auto_release"
    /\ base_volume = 900 /\ sensitivity = 50 /\ noise = 10
    /\ RawVolume(base_volume, noise, sensitivity) = 1150
    /\ sysVol = MAX_VOLUME
    /\ last_volume_set_by_app = MAX_VOLUME

\* a volume of the range [0.0, 1.0]
InRange(v) == MIN_VOLUME <= v /\ v <= MAX_VOLUME

\* C15: tracker range.  With system-volume reads and slider values in [0, 1],
\* the tracker lies in [0.0, 1.0] in every state after main() initialised it,
\* and every writer (detection adoption, auto branch, manual branch, slider
\* handler) is about to store a value of that range.
C15_TrackerRange ==
    /\ mainPc \in {"init_release", "create_gui", "start_thread", "mainloop"} =>
           InRange(last_volume_set_by_app)
    /\ last_volume_set_by_app # UNINITIALIZED => InRange(last_volume_set_by_app)
    /\ loopPc \in {"detect_adopt", "manual_write"} =>
           InRange(current_system_volume)
    /\ loopPc = "auto_write" => InRange(final_volume)
    /\ guiPc = "slider_write" => InRange(volume_value)

\* the auto branch has recorded 0.0 for a raw target below the range
C15_Witness ==
    /\ loopPc = "auto_release"
    /\ RawVolume(base_volume, noise, sensitivity) < MIN_VOLUME
    /\ last_volume_set_by_app = MIN_VOLUME

\* the calls of one cycle up to the detection, with or without the callback
DetectionCalls(notified) ==
    <<"get_listen_state", "GetMasterVolumeLevelScalar">>
        \o (IF notified THEN <<"update_base_volume_in_gui">> ELSE <<>>)

\* the calls of a whole auto-mode cycle
AutoCalls(notified) ==
    DetectionCalls(notified)
        \o <<"get_toggle_state", "get_base_volume", "get_noise_level",
             "get_sensitivity", "SetMasterVolumeLevelScalar">>

IsPrefix(s, t) == Len(s) <= Len(t) /\ SubSeq(t, 1, Len(s)) = s

\* C16: intra-cycle ordering.  The calls of a cycle are a prefix of
\* get_listen_state, GetMasterVolumeLevelScalar, [update_base_volume_in_gui],
\* get_toggle_state, get_base_volume, get_noise_level, get_sensitivity,
\* SetMasterVolumeLevelScalar; while the loop is in the detection (up to the
\* release of the lock) only the first two or three have been made, and the
\* detection's tracker write directly follows the callback; the auto-mode
\* check and everything after it happen with the detection over; the auto
\* branch writes the tracker after SetMasterVolumeLevelScalar(final_volume),
\* with that same final_volume; and at the next cycle's pause check the
\* cycle is over and the loop holds no lock.
C16_CycleOrdering ==
    [][/\ \E notified \in BOOLEAN : IsPrefix(cycleLog', AutoCalls(notified))
       /\ loopPc' \in {"detect_acquire", "detect_compare", "detect_notify"} =>
              cycleLog' = DetectionCalls(FALSE)
       /\ loopPc' \in {"detect_adopt", "detect_release"} =>
              cycleLog' \in {DetectionCalls(FALSE), DetectionCalls(TRUE)}
       /\ (loopPc = "detect_adopt" /\ LoopStep) =>
              /\ cycleLog = DetectionCalls(TRUE)
              /\ last_volume_set_by_app' = current_system_volume
       /\ Len(cycleLog') > Len(DetectionCalls(TRUE)) =>
              loopPc' \notin {"read_volume", "detect_acquire", "detect_compare",
                              "detect_notify", "detect_adopt", "detect_release"}
       /\ (AfterDetect' /\ loopPc' # "detect_release") =>
              /\ IsPrefix(DetectionCalls(FALSE), cycleLog')
              /\ tracked' # UNINITIALIZED
       /\ (loopPc = "auto_write" /\ LoopStep) =>
              /\ cycleLog[Len(cycleLog)] = "SetMasterVolumeLevelScalar"
              /\ last_volume_set_by_app' = final_volume
       /\ loopPc' = "pause_check" =>
              cycleLog' = <<>> /\ volume_lock' # "loop"
      ]_vars

\* an auto-mode cycle with a detected change is complete: all eight calls in
\* order, the tracker holding the applied target
C16_Witness ==
    /\ loopPc = "cycle_sleep"
    /\ cycleLog = AutoCalls(TRUE)
    /\ last_volume_set_by_app = final_volume

\* positions of the loop in the manual branch (lines 99-102)
InManualBranch ==
    loopPc \in {"manual_acquire", "manual_write", "manual_release"}

\* C17: manual branch effect.  In a cycle whose auto-mode check read false
\* the calls made are those of the detection and get_toggle_state only (no
\* get_base_volume, get_noise_level, get_sensitivity or
\* SetMasterVolumeLevelScalar); the loop's steps in the branch leave the
\* system volume, the Tk variables and its locals alone, and change the
\* tracker only at line 102, to the current_system_volume read at the start
\* of the same cycle.
C17_ManualBranchEffect ==
    [][/\ InManualBranch' =>
              \E notified \in BOOLEAN :
                  cycleLog' = DetectionCalls(notified) \o <<"get_toggle_state">>
       /\ (InManualBranch /\ LoopStep) =>
              /\ UNCHANGED <<sysVol, sysVolSrc, tkVars, loopLocals, cycleLog>>
              /\ loopPc' \in {"manual_write", "manual_release", "cycle_sleep"}
              /\ IF loopPc = "manual_write"
                    THEN last_volume_set_by_app' = current_system_volume
                    ELSE UNCHANGED last_volume_set_by_app
       /\ (loopPc \notin {"read_volume", "cycle_sleep"}) =>
              UNCHANGED current_system_volume
      ]_vars

\* the manual branch has stored the volume read at the start of the cycle
\* while the system volume has moved on
C17_Witness ==
    /\ loopPc = "manual_release"
    /\ last_volume_set_by_app = current_system_volume
    /\ current_system_volume # sysVol
    /\ cycleLog = DetectionCalls(FALSE) \o <<"get_toggle_state">>

\* C18: the user-set base is respected in auto mode.  With auto-mode on, no
\* external actor, and a slider handler finished in auto mode (tracker
\* written, system volume untouched) with no toggle or slider move since, no
\* step of the loop changes the base-volume setting.
C18_UserBaseRespected ==
    [][(sliderMode = "auto" /\ toggle_var /\ listening_var /\ extCount = 0
          /\ LoopStep)
         => base_volume_var' = base_volume_var]_vars

\* C19: mode toggle consistency.  With no external actor, once a slider
\* handler has finished in manual mode (auto-mode switched off before the
\* move), and until auto-mode is toggled again, the system volume is the one
\* the slider set and no step of the loop writes the system volume.
C19_ModeToggleConsistency ==
    [][(sliderMode = "manual" /\ extCount = 0) =>
          /\ sysVolSrc = "slider"
          /\ LoopStep => (sysVol' = sysVol /\ sysVolSrc' = sysVolSrc)]_vars

\* C20: progress.  Every acquisition of volume_lock is followed by its
\* release and every slider handler completes its tracker write, also when
\* the handler asks for the lock while the loop holds it: whenever the slider
\* handler waits for volume_lock and the loop holds it, the loop is able to
\* take its next step towards the release.
C20_Progress ==
    (volume_lock = "loop" /\ guiPc = "slider_acquire") => ENABLED LoopNext

====
